---- MODULE Spec2Model ----
(***************************************************************************)
(* Model of scoutlist.py: the Track / TrackAddedAt value classes, the      *)
(* tracks_iterator generator, aggregate_excluded_tracks and the bounded    *)
(* top-K merge aggregate_source_tracks.                                    *)
(*                                                                         *)
(* The Spotify session is the environment: every item it can return is     *)
(* drawn from a small catalogue.  added_at is the instant that             *)
(* dateutil.parser.parse returns, numbered 1..MaxTime in time order.       *)
(***************************************************************************)
EXTENDS Integers, Sequences, FiniteSets, TLC

\* ---------------------------------------------------------------- bounds
MaxTime == 3        \* distinct added_at instants
MaxOutputLen == 2   \* largest output_len tried
MaxRecords == 3     \* items fetched from the source playlists in one run
MaxPlaylists == 2   \* source playlists in one run

None == "None"

\* ------------------------------------------------- what the API can return
\* item['track'] of the items of the source playlists.  s1 and s2 are the
\* same work under two catalogue ids (artists listed in a different order),
\* s3 shares the name only, s4 shares the artists of s3 only, s5 is a local
\* file, which has no track id.
s1 == [id |-> "t1", name |-> "X", artists |-> <<"a1", "a2">>]
s2 == [id |-> "t2", name |-> "X", artists |-> <<"a2", "a1">>]
s3 == [id |-> "t3", name |-> "X", artists |-> <<"a1">>]
s4 == [id |-> "t4", name |-> "Y", artists |-> <<"a1">>]
s5 == [id |-> None, name |-> "Y", artists |-> <<"a2">>]

\* the items of the source playlists: s1 and s3 added at any instant, s4 at
\* the earliest or the latest one, the re-release s2 and the local file at
\* the latest one
SourceItems ==
  { [track |-> t, added_at |-> a] : t \in {s1, s3}, a \in 1..MaxTime }
  \cup { [track |-> s4, added_at |-> a] : a \in {1, MaxTime} }
  \cup { [track |-> t, added_at |-> MaxTime] : t \in {s2, s5} }

\* the items of the exclude playlists (fetched without added_at): the work
\* of s3 under another catalogue id, and a local file with the name and
\* artists of s1
ExcludeItems ==
  { [track |-> [id |-> "t5", name |-> "X", artists |-> <<"a1">>]],
    [track |-> [id |-> None, name |-> "X", artists |-> <<"a2", "a1">>]] }

\* ------------------------------------------------------------ Track classes
Range(s) == { s[i] : i \in DOMAIN s }

\* Track.__init__
Track(item) ==
  [ track_id   |-> item.track.id,
    track_name |-> item.track.name,
    artist_ids |-> Range(item.track.artists) ]

\* TrackAddedAt.__init__
TrackAddedAt(item) ==
  [ track_id   |-> item.track.id,
    track_name |-> item.track.name,
    artist_ids |-> Range(item.track.artists),
    added_at   |-> item.added_at ]

\* Track.__key: what __hash__ hashes and __eq__ compares, so what a set of
\* tracks is keyed by
KeyById(track) == <<track.track_id, {}>>
Key(track) == <<track.track_name, track.artist_ids>>

\* TrackAddedAt.__lt__
Lt(a, b) == a.added_at < b.added_at

\* `track in excluded_tracks` and `excluded_tracks.add(track)` on a set that
\* is represented by the keys of its members
NeverIn(track, excluded) == FALSE
In(track, excluded) == Key(track) \in excluded

AddNothing(excluded, track) == excluded
Add(excluded, track) == excluded \cup {Key(track)}

\* ---------------------------------------------------------- tracks_iterator
RECURSIVE Yielded(_, _)
Yielded(items, added_at) ==
  IF items = <<>> THEN <<>>
  ELSE LET item == Head(items)
           track == IF added_at THEN TrackAddedAt(item) ELSE Track(item)
       IN  IF track.track_id # None
           THEN <<track>> \o Yielded(Tail(items), added_at)
           ELSE Yielded(Tail(items), added_at)

\* the tracks of all the playlists, in the order the nested loops see them
RECURSIVE AllYielded(_)
AllYielded(playlists) ==
  IF playlists = <<>> THEN <<>>
  ELSE Yielded(Head(playlists), TRUE) \o AllYielded(Tail(playlists))

\* ------------------------------------------------- sorted(..., reverse=True)
\* A stable sort into descending order that compares with __lt__ only: an
\* element goes in front of the first one that is less than it, so it stays
\* behind every equal element that preceded it.
RECURSIVE InsertUnstable(_, _)
InsertUnstable(sorted, x) ==
  IF sorted = <<>> THEN <<x>>
  ELSE IF ~ Lt(x, Head(sorted)) THEN <<x>> \o sorted
  ELSE <<Head(sorted)>> \o InsertUnstable(Tail(sorted), x)

RECURSIVE Insert(_, _)
Insert(sorted, x) ==
  IF sorted = <<>> THEN <<x>>
  ELSE IF Lt(Head(sorted), x) THEN <<x>> \o sorted
  ELSE <<Head(sorted)>> \o Insert(Tail(sorted), x)

NotSorted(list) == list

RECURSIVE SortedReverse(_)
SortedReverse(list) ==
  IF list = <<>> THEN <<>>
  ELSE Insert(SortedReverse(SubSeq(list, 1, Len(list) - 1)), list[Len(list)])

\* ------------------------------------------- aggregate_source_tracks, body
\* `len(included_tracks) >= output_len and ... included_tracks[-1]`:
\* the index is evaluated when the length test passes, and fails on []
RaisesIndexError(included, len) == Len(included) >= len /\ included = <<>>

ShortCircuit(included, track, len) ==
  /\ Len(included) >= len
  /\ included # <<>>
  /\ track.added_at <= included[Len(included)].added_at

\* `if len(included_tracks) > output_len: included_tracks.pop()`
NoPop(included, len) == included
Pop(included, len) ==
  IF Len(included) > len THEN SubSeq(included, 1, Len(included) - 1) ELSE included

\* the two `continue` tests: the track reaches `excluded_tracks.add(track)`
Accepts(st, track, len) ==
  /\ ~ st.raised
  /\ ~ RaisesIndexError(st.included, len)
  /\ ~ ShortCircuit(st.included, track, len)
  /\ ~ In(track, st.excluded)

\* one iteration of the inner loop on the locals [included, excluded, raised]
ProcessTrack(st, track, len) ==
  IF st.raised THEN st
  ELSE IF RaisesIndexError(st.included, len) THEN [st EXCEPT !.raised = TRUE]
  ELSE IF ~ Accepts(st, track, len) THEN st
  ELSE [ included |-> Pop(SortedReverse(Append(st.included, track)), len),
         excluded |-> Add(st.excluded, track),
         raised   |-> FALSE ]

\* the nested loops of aggregate_source_tracks on whole playlists
RECURSIVE Loop(_, _, _)
Loop(st, tracks, len) ==
  IF tracks = <<>> THEN st
  ELSE Loop(ProcessTrack(st, Head(tracks), len), Tail(tracks), len)

AggregateSourceTracks(playlists, excluded, len) ==
  Loop([included |-> <<>>, excluded |-> excluded, raised |-> FALSE],
       AllYielded(playlists), len)

\* `[track.track_id for track in included_tracks]`
TrackIds(included) == [ i \in 1..Len(included) |-> included[i].track_id ]

\* -------------------------------------------------------------------- state
VARIABLES
  pc,               \* "exclude", "source", "done" or "IndexError"
  output_len,       \* the capacity
  excluded_tracks,  \* the set shared by the two aggregate functions
  seed,             \* excluded_tracks as aggregate_source_tracks received it
  source_playlists, \* the items fetched so far, one sequence per playlist
  included_tracks,  \* the kept list
  log,              \* history: one entry per track the iterator yielded
  result            \* the returned list of track ids

vars == <<pc, output_len, excluded_tracks, seed, source_playlists,
          included_tracks, log, result>>

RECURSIVE NumItems(_)
NumItems(playlists) ==
  IF playlists = <<>> THEN 0 ELSE Len(Head(playlists)) + NumItems(Tail(playlists))

Init ==
  /\ pc = "exclude"
  /\ output_len \in 0..MaxOutputLen
  /\ excluded_tracks = {}
  /\ seed = {}
  /\ source_playlists = <<>>
  /\ included_tracks = <<>>
  /\ log = <<>>
  /\ result = <<>>

\* aggregate_excluded_tracks: one iteration of its inner loop
ExcludeTrack ==
  /\ pc = "exclude"
  /\ \E item \in ExcludeItems :
       LET tracks == Yielded(<<item>>, FALSE)
       IN  excluded_tracks' =
             IF tracks = <<>> THEN excluded_tracks ELSE Add(excluded_tracks, tracks[1])
  /\ UNCHANGED <<pc, output_len, seed, source_playlists, included_tracks, log, result>>

\* aggregate_excluded_tracks returns and aggregate_source_tracks is called
\* with the set it built
CallAggregateSourceTracks ==
  /\ pc = "exclude"
  /\ pc' = "source"
  /\ seed' = excluded_tracks
  /\ included_tracks' = <<>>
  /\ UNCHANGED <<output_len, excluded_tracks, source_playlists, log, result>>

\* `for playlist in source_playlists`: the next playlist is opened (an empty
\* playlist is followed by no other, it changes nothing)
NextPlaylist ==
  /\ pc = "source"
  /\ Len(source_playlists) < MaxPlaylists
  /\ source_playlists # <<>> => source_playlists[Len(source_playlists)] # <<>>
  /\ source_playlists' = Append(source_playlists, <<>>)
  /\ UNCHANGED <<pc, output_len, excluded_tracks, seed, included_tracks, log, result>>

\* the current playlist hands out one more item; the iterator drops it when
\* it has no track id, otherwise the loop body runs on it
FetchTrack ==
  /\ pc = "source"
  /\ source_playlists # <<>>
  /\ NumItems(source_playlists) < MaxRecords
  /\ \E item \in SourceItems :
       LET n      == Len(source_playlists)
           tracks == Yielded(<<item>>, TRUE)
           st     == [included |-> included_tracks, excluded |-> excluded_tracks,
                      raised |-> FALSE]
       IN  /\ source_playlists' =
                [source_playlists EXCEPT ![n] = Append(source_playlists[n], item)]
           /\ IF tracks = <<>>
              THEN UNCHANGED <<pc, excluded_tracks, included_tracks, log>>
              ELSE LET track == tracks[1]
                       new   == ProcessTrack(st, track, output_len)
                   IN  /\ pc' = IF new.raised THEN "IndexError" ELSE "source"
                       /\ included_tracks' = new.included
                       /\ excluded_tracks' = new.excluded
                       /\ log' = Append(log,
                            [ track    |-> track,
                              known    |-> Key(track) \in excluded_tracks,
                              full     |-> Len(included_tracks) >= output_len,
                              accepted |-> Accepts(st, track, output_len) ])
  /\ UNCHANGED <<output_len, seed, result>>

\* the playlists are exhausted: `return [track.track_id for ...]`
Return ==
  /\ pc = "source"
  /\ pc' = "done"
  /\ result' = TrackIds(included_tracks)
  /\ UNCHANGED <<output_len, excluded_tracks, seed, source_playlists,
                 included_tracks, log>>

Next ==
  \/ ExcludeTrack
  \/ CallAggregateSourceTracks
  \/ NextPlaylist
  \/ FetchTrack
  \/ Return

Spec == Init /\ [][Next]_vars

\* ================================================================ properties
\* The identity of a track in the words of the specification: its name and
\* the set of its artist ids.
Identity(track) == <<track.track_name, track.artist_ids>>
Identities(tracks) == { Identity(tracks[i]) : i \in DOMAIN tracks }

Records == { log[i].track : i \in DOMAIN log }
Output == Range(included_tracks)

\* the record yielded i-th is an element of the kept list
Kept(i) == log[i].accepted /\ log[i].track \in Output
IndexOf(i) == CHOOSE k \in DOMAIN included_tracks : included_tracks[k] = log[i].track
NumAccepted == Cardinality({ i \in DOMAIN log : log[i].accepted })

\* C1: the output is the K most recently added unique non-excluded tracks
\* (K >= 1): (a) when it holds K elements, every yielded record whose identity
\* is neither in the seed nor that of an output element is no newer than any
\* output element; (b) when it holds fewer, every identity of the sources
\* that is not in the seed is the identity of an output element.
C1_MostRecentK ==
  (pc = "done" /\ output_len >= 1) =>
    /\ Len(included_tracks) = output_len =>
         \A r \in Records :
           (Identity(r) \notin seed /\ Identity(r) \notin Identities(included_tracks))
             => \A o \in Output : r.added_at <= o.added_at
    /\ Len(included_tracks) < output_len =>
         \A r \in Records :
           Identity(r) \notin seed => Identity(r) \in Identities(included_tracks)

\* C2: no two elements of the kept list (the returned one included) have the
\* same name and artist-id set, whatever their track ids, and none has an
\* identity of the seed.
C2_Uniqueness ==
  /\ \A i, j \in DOMAIN included_tracks :
       i # j => Identity(included_tracks[i]) # Identity(included_tracks[j])
  /\ \A i \in DOMAIN included_tracks : Identity(included_tracks[i]) \notin seed
  /\ pc = "done" => Len(result) = Len(included_tracks)

\* a returned track met again under another track id, and a track of the seed
C2_Witness ==
  /\ pc = "done"
  /\ \E i, j \in DOMAIN log :
       /\ i < j
       /\ Kept(i)
       /\ Identity(log[i].track) = Identity(log[j].track)
       /\ log[i].track.track_id # log[j].track.track_id
  /\ \E k \in DOMAIN log : Identity(log[k].track) \in seed

\* C3: between two iterations, and on return, the kept list holds at most
\* output_len records, so the returned list has at most output_len elements.
C3_CapacityBound ==
  /\ Len(included_tracks) <= output_len
  /\ pc = "done" => Len(result) <= output_len

\* a full kept list from which a record has been popped
C3_Witness ==
  /\ pc = "done"
  /\ output_len >= 1
  /\ Len(result) = output_len
  /\ NumAccepted > output_len

\* C4: the kept list is sorted non-increasing by added_at after every
\* iteration, and the returned list holds its track ids in that order.
C4_Descending ==
  /\ \A i \in 1..(Len(included_tracks) - 1) :
       included_tracks[i].added_at >= included_tracks[i + 1].added_at
  /\ pc = "done" =>
       /\ Len(result) = Len(included_tracks)
       /\ \A i \in DOMAIN result : result[i] = included_tracks[i].track_id

\* a record that arrived later and is returned in front of an earlier one
C4_Witness ==
  /\ pc = "done"
  /\ \E i, j \in DOMAIN log :
       /\ i < j
       /\ Kept(i) /\ Kept(j)
       /\ log[i].track.added_at < log[j].track.added_at
       /\ IndexOf(j) < IndexOf(i)

\* C5: of two records with equal added_at and distinct identities, neither
\* identity being in the exclusion set when its record is processed, the
\* later one is in the kept list only if the earlier one is, and then behind
\* it.
C5_TieStability ==
  \A i, j \in DOMAIN log :
    ( /\ i < j
      /\ log[i].track.added_at = log[j].track.added_at
      /\ Identity(log[i].track) # Identity(log[j].track)
      /\ ~ log[i].known
      /\ ~ log[j].known )
    => (Kept(j) => (Kept(i) /\ IndexOf(i) < IndexOf(j)))

\* both records of a tie were accepted and the later one was evicted while
\* the earlier one stayed
C5_Witness ==
  /\ pc = "done"
  /\ \E i, j \in DOMAIN log :
       /\ i < j
       /\ log[i].track.added_at = log[j].track.added_at
       /\ Identity(log[i].track) # Identity(log[j].track)
       /\ ~ log[i].known /\ ~ log[j].known
       /\ Kept(i)
       /\ log[j].accepted
       /\ ~ Kept(j)

\* the playlists in another order
Reordered(playlists) ==
  { [ i \in DOMAIN playlists |-> playlists[p[i]] ] :
      p \in Permutations(DOMAIN playlists) }

DistinctAddedAt ==
  \A i, j \in DOMAIN log : i # j => log[i].track.added_at # log[j].track.added_at

\* C6: when the added_at of the source records are pairwise distinct and
\* K >= 1, every order of the source playlists returns the same set of
\* identities.
C6_PlaylistOrder ==
  (pc = "done" /\ output_len >= 1 /\ DistinctAddedAt) =>
    \A playlists \in Reordered(source_playlists) :
      Identities(AggregateSourceTracks(playlists, seed, output_len).included)
        = Identities(included_tracks)

\* the second run: same playlists and capacity, the exclusion set being the
\* seed plus the identities of the tracks the first run returned
SecondRun ==
  AggregateSourceTracks(source_playlists,
                        seed \cup Identities(included_tracks), output_len)

\* C7: the second run returns the empty list.
C7_SecondRunEmpty ==
  pc = "done" => (~ SecondRun.raised /\ SecondRun.included = <<>>)

\* C7 amended: the second run returns no track whose identity is in the seed
\* or is that of a track the first run returned, and it returns the empty
\* list when the first run returned fewer than output_len tracks.
C7_NoTrackReselected ==
  pc = "done" =>
    /\ ~ SecondRun.raised
    /\ \A i \in DOMAIN SecondRun.included :
         Identity(SecondRun.included[i])
           \notin (seed \cup Identities(included_tracks))
    /\ Len(included_tracks) < output_len => SecondRun.included = <<>>

\* a first run that met a returned identity twice, followed by a second run
\* that returns other tracks
C7_Witness ==
  /\ pc = "done"
  /\ included_tracks # <<>>
  /\ SecondRun.included # <<>>
  /\ \E i, j \in DOMAIN log :
       i # j /\ Kept(i) /\ Identity(log[i].track) = Identity(log[j].track)

\* C8: with output_len = 0 the function raises nothing and returns [].
C8_ZeroCapacity ==
  output_len = 0 => (pc # "IndexError" /\ result = <<>>)

\* the loop body without the first `continue` test
ProcessTrackNoShortCircuit(st, track, len) ==
  IF Identity(track) \in st.excluded THEN st
  ELSE LET appended == Append(st.included, track)
           sorted   == SortedReverse(appended)
       IN  [ included |-> IF Len(sorted) > len
                          THEN SubSeq(sorted, 1, Len(sorted) - 1) ELSE sorted,
             excluded |-> st.excluded \cup {Identity(track)},
             raised   |-> FALSE ]

RECURSIVE LoopNoShortCircuit(_, _, _)
LoopNoShortCircuit(st, tracks, len) ==
  IF tracks = <<>> THEN st
  ELSE LoopNoShortCircuit(ProcessTrackNoShortCircuit(st, Head(tracks), len),
                          Tail(tracks), len)

NoShortCircuitRun ==
  LoopNoShortCircuit([included |-> <<>>, excluded |-> seed, raised |-> FALSE],
                     AllYielded(source_playlists), output_len)

\* C9: the function without the short-circuit returns the same list, for
\* every input and capacity.
C9_ShortCircuitNeutral ==
  pc = "done" => TrackIds(NoShortCircuitRun.included) = result

DistinctIdentities ==
  \A i, j \in DOMAIN log : i # j => Identity(log[i].track) # Identity(log[j].track)

\* Where C9 does hold: when output_len >= 1 and no two source records have
\* the same identity, the function without the short-circuit returns the
\* same list.  The two differ only when an identity comes twice (a record
\* popped at once stays in the exclusion set) or when output_len = 0.
C9_NeutralOnDistinctIdentities ==
  (pc = "done" /\ output_len >= 1 /\ DistinctIdentities) =>
    /\ TrackIds(NoShortCircuitRun.included) = result
    /\ NoShortCircuitRun.included = included_tracks

\* a run on distinct identities where the short-circuit skipped a record
C9_Witness ==
  /\ pc = "done"
  /\ output_len >= 1
  /\ DistinctIdentities
  /\ \E i \in DOMAIN log : log[i].full /\ ~ log[i].known /\ ~ log[i].accepted

KeptAreExcluded ==
  \A i \in DOMAIN included_tracks : Identity(included_tracks[i]) \in excluded_tracks

AcceptedOnce ==
  \A i, j \in DOMAIN log :
    (i < j /\ log[i].accepted /\ log[j].accepted)
      => Identity(log[i].track) # Identity(log[j].track)

\* C10: the exclusion set only grows, every identity of the kept list is in
\* it, and no identity is accepted twice in a run, also after its first
\* record has been evicted.
C10_AcceptAtMostOnce ==
  /\ [](KeptAreExcluded /\ AcceptedOnce)
  /\ [][excluded_tracks \subseteq excluded_tracks']_vars

\* an accepted record was evicted and its identity came again, newer than
\* the whole kept list, and was not accepted
C10_Witness ==
  \E i, j \in DOMAIN log :
    /\ i < j
    /\ log[i].accepted
    /\ ~ Kept(i)
    /\ Identity(log[i].track) = Identity(log[j].track)
    /\ ~ log[j].accepted
    /\ \A k \in DOMAIN included_tracks :
         included_tracks[k].added_at < log[j].track.added_at
====
